---- MODULE Spec2Model ----
(***************************************************************************)
(* A model of authlib.client.oauth2.OAuth2Session: the session object, its *)
(* hook registry and its four operations (authorization_url,               *)
(* fetch_access_token, request, register_compliance_hook).                 *)
(*                                                                         *)
(* Python values are modelled as follows.  A str is a TLA+ string, and the *)
(* None that can stand where a str is expected is the string "None".  A    *)
(* dict is a function whose domain is its set of keys; the None that can   *)
(* stand where a dict or an object is expected is NoneDict.  A URL is a    *)
(* record of its scheme, its path and its (decoded) query.                 *)
(***************************************************************************)
EXTENDS Integers, Sequences, FiniteSets, TLC

None == "None"
NoneDict == [None |-> "None"]
EmptyDict == [k \in {} |-> ""]

\* Python truthiness of an optional str / of an optional dict.
Truthy(v) == v # None /\ v # ""
TruthyDict(d) == d # NoneDict /\ DOMAIN d # {}

\* d[k] = v on a copy of d;  d.get(k) ;  d without k.
Put(d, k, v) == [x \in (DOMAIN d) \cup {k} |-> IF x = k THEN v ELSE d[x]]
Get(d, k) == IF k \in DOMAIN d THEN d[k] ELSE None
Drop(d, k) == [x \in (DOMAIN d) \ {k} |-> d[x]]

\* All the orders in which a set can be iterated.
Orders(S) == {f \in [1..Cardinality(S) -> S] : \A i, j \in 1..Cardinality(S) : f[i] = f[j] => i = j}

----------------------------------------------------------------------------
(* Values the environment supplies. *)

TokenUrl == [scheme |-> "https", path |-> "provider/token", query |-> EmptyDict]
InsecureUrl == [scheme |-> "http", path |-> "provider/token", query |-> EmptyDict]
AuthUrl == [scheme |-> "https", path |-> "provider/auth", query |-> EmptyDict]
ApiUrl == [scheme |-> "https", path |-> "api/me", query |-> EmptyDict]

States == {"s1", "s2"}
GeneratedTokens == {"g1"}

BearerToken == [access_token |-> "tok1", token_type |-> "bearer"]
BearerTokenCased == [access_token |-> "tok2", token_type |-> "Bearer"]
MacToken == [access_token |-> "tok3", token_type |-> "mac"]

DEFAULT_HEADERS == [Accept |-> "application/json", ContentType |-> "application/x-www-form-urlencoded;charset=UTF-8"]
CustomHeaders == [Accept |-> "text/plain"]

ResponseHooks == {"reset_status", "error_from_status"}
RequestHooks == {"tag", "drop_auth"}
HookTypes == {"access_token_response", "refresh_token_response", "protected_request"}

----------------------------------------------------------------------------
(* The collaborators outside oauth2.py, as the specification describes them. *)

\* common.security.is_secure_transport: the endpoint uses a secure scheme.
is_secure_transport(url) == url # NoneDict /\ url.scheme = "https"

\* str.lower() / str.upper() on the strings that occur.
Lower(s) == CASE s = "Bearer" -> "bearer" [] s = "BEARER" -> "bearer" [] s = "MAC" -> "mac" [] OTHER -> s
Upper(s) == CASE s = "post" -> "POST" [] s = "Post" -> "POST" [] s = "get" -> "GET" [] s = "put" -> "PUT" [] OTHER -> s

\* Percent-encoding of one query component, and its inverse.
Quote(s) == CASE s = "https://app/cb" -> "https%3A%2F%2Fapp%2Fcb" [] s = "a b" -> "a+b" [] OTHER -> s
Unquote(s) == CASE s = "https%3A%2F%2Fapp%2Fcb" -> "https://app/cb" [] s = "a+b" -> "a b" [] OTHER -> s

\* An exception raised to the caller, and a value returned to the caller.
Raise(name) == [kind |-> "raise", exc |-> name, value |-> NoneDict, error |-> None, description |-> None, status_code |-> 0, uri |-> None, state |-> None]
Return(v) == [kind |-> "return", exc |-> None, value |-> v, error |-> None, description |-> None, status_code |-> 0, uri |-> None, state |-> None]

\* rfc6749.client.parse_authorization_code_response: the parameters of the
\* redirect response, or the error of the parsing step.
parse_authorization_code_response(authorization_response, state) ==
    IF Get(authorization_response, "state") # state THEN Raise("MismatchingStateError")
    ELSE IF "code" \notin DOMAIN authorization_response THEN Raise("MissingCodeError")
    ELSE Return(authorization_response)

\* rfc6749.client.prepare_token_request: the encoded body, a sequence of
\* key=value items appended to the body seed.
EncodeItems(body, items) == body \o [i \in 1..Len(items) |-> [k |-> items[i][1], v |-> Quote(items[i][2])]]
TruthyItems(items) == SelectSeq(items, LAMBDA it : Truthy(it[2]))
prepare_token_request(grant_type, code, body, client_id, redirect_uri, kwargs) ==
    EncodeItems(body, TruthyItems(<< <<"grant_type", grant_type>>, <<"code", code>>, <<"client_id", client_id>>, <<"redirect_uri", redirect_uri>>, <<"client_secret", Get(kwargs, "client_secret")>> >>))

\* common.urls.url_decode followed by dict(): the decoded pairs, the last
\* value of a repeated key winning.
url_decode(body) == [i \in 1..Len(body) |-> <<body[i].k, Unquote(body[i].v)>>]
RECURSIVE dict(_)
dict(pairs) == IF pairs = <<>> THEN EmptyDict ELSE Put(dict(SubSeq(pairs, 1, Len(pairs) - 1)), pairs[Len(pairs)][1], pairs[Len(pairs)][2])

\* rfc6749.client.prepare_grant_uri: the endpoint with the parameters merged
\* into its query.
prepare_grant_uri(url, redirect_uri, scope, state) ==
    [url EXCEPT !.query = Put(Put(Put(url.query, "redirect_uri", redirect_uri), "scope", scope), "state", state)]

\* rfc6749.OAuth2Token: the token wraps the parsed body.
OAuth2Token(params) == params

\* requests.auth.HTTPBasicAuth
HTTPBasicAuth(username, password) == [type |-> "basic", username |-> username, password |-> password]
ExplicitAuth == [type |-> "custom", username |-> None, password |-> None]

\* rfc6750.BearToken(access_token).add_token(url, headers, data, placement)
BearerHeader(access_token) == CASE access_token = "tok1" -> "Bearer tok1" [] access_token = "tok2" -> "Bearer tok2" [] access_token = "tok3" -> "Bearer tok3" [] OTHER -> "Bearer"
OrEmpty(d) == IF d = NoneDict THEN EmptyDict ELSE d
add_token(access_token, url, headers, data, placement) ==
    CASE placement = "headers" -> [url |-> url, headers |-> Put(OrEmpty(headers), "Authorization", BearerHeader(access_token)), data |-> data]
      [] placement = "query" -> [url |-> [url EXCEPT !.query = Put(url.query, "access_token", access_token)], headers |-> headers, data |-> data]
      [] OTHER -> [url |-> url, headers |-> headers, data |-> Put(OrEmpty(data), "access_token", access_token)]

----------------------------------------------------------------------------
(* Compliance hooks: the callables the caller registers. *)

\* hook(resp) for a hook of phase access_token_response
ApplyResponseHook(hook, r) ==
    CASE hook = "reset_status" -> [r EXCEPT !.status_code = 200]
      [] hook = "error_from_status" -> IF r.status_code # 200 THEN [r EXCEPT !.json = Put(r.json, "error", "http_error")] ELSE r
      [] OTHER -> r

\* hook(url, headers, data) for a hook of phase protected_request
ApplyRequestHook(hook, t) ==
    CASE hook = "tag" -> [t EXCEPT !.headers = Put(OrEmpty(t.headers), "X-Tag", IF "Authorization" \in DOMAIN OrEmpty(t.headers) THEN "signed" ELSE "unsigned")]
      [] hook = "drop_auth" -> [t EXCEPT !.headers = Drop(OrEmpty(t.headers), "Authorization")]
      [] OTHER -> t

\* for hook in self.compliance_hook[...]: x = hook(x), the set iterated in `order`
RECURSIVE ApplyResponseHooks(_, _)
ApplyResponseHooks(order, r) == IF order = <<>> THEN r ELSE ApplyResponseHooks(Tail(order), ApplyResponseHook(Head(order), r))
RECURSIVE ApplyRequestHooks(_, _)
ApplyRequestHooks(order, t) == IF order = <<>> THEN t ELSE ApplyRequestHooks(Tail(order), ApplyRequestHook(Head(order), t))
Invocations(phase, order) == [i \in 1..Len(order) |-> [phase |-> phase, hook |-> order[i]]]

----------------------------------------------------------------------------
(* OAuth2Session *)

VARIABLES session, issued, registered, op, args, pre, result, sent, invoked, raw, resp
vars == <<session, issued, registered, op, args, pre, result, sent, invoked, raw, resp>>

\* What one call does: the session after it, its result, the calls it made
\* to the underlying transport, the hooks it invoked, and the token
\* endpoint's response before and after the hooks.
Outcome(self, r) == [self |-> self, result |-> r, sent |-> <<>>, invoked |-> <<>>, raw |-> NoneDict, resp |-> NoneDict]

\* token_cls comparing the token type as it is stored
token_cls_case_sensitive(token) ==
    IF ~TruthyDict(token) THEN None
    ELSE IF token["token_type"] = "bearer" THEN "BearToken" ELSE None

\* OAuth2Session.token_cls
token_cls(token) ==
    IF ~TruthyDict(token) THEN None
    ELSE IF Lower(token["token_type"]) = "bearer" THEN "BearToken" ELSE None

\* super(OAuth2Session, self).request(method, url, headers=headers, data=data, **kwargs)
Transport(method, url, headers, data, kwargs) ==
    [method |-> method, url |-> url, headers |-> headers, data |-> data, params |-> kwargs.params, auth |-> kwargs.auth]
Delegate(self, method, url, headers, data, kwargs, order, response) ==
    [self |-> self, result |-> Return(response),
     sent |-> <<Transport(method, url, headers, data, kwargs)>>,
     invoked |-> Invocations("protected_request", order), raw |-> NoneDict, resp |-> NoneDict]

\* OAuth2Session.request, the branch that attaches the token
protected_request(self, method, url, data, headers, kwargs, order, response) ==
    IF token_cls(self.token) = None
    THEN Outcome(self, Raise("TypeError"))
    ELSE LET tok == add_token(self.token["access_token"], url, headers, data, self.token_placement)
             t == ApplyRequestHooks(order, tok)
         IN  Delegate(self, method, t.url, t.headers, t.data, kwargs, order, response)

\* request attaching the token also when it is withheld
request_ignoring_withhold(self, method, url, data, headers, withhold_token, kwargs, order, response) ==
    IF TruthyDict(self.token)
    THEN protected_request(self, method, url, data, headers, kwargs, order, response)
    ELSE Delegate(self, method, url, headers, data, kwargs, <<>>, response)

\* OAuth2Session.request
request(self, method, url, data, headers, withhold_token, kwargs, order, response) ==
    IF TruthyDict(self.token) /\ ~withhold_token
    THEN protected_request(self, method, url, data, headers, kwargs, order, response)
    ELSE Delegate(self, method, url, headers, data, kwargs, <<>>, response)

\* TokenError.__init__: super(TokenError) is an unbound super object, whose
\* own __init__ takes at most two arguments.
TokenError(error, description, status_code, uri, state) == Raise("TypeError")

\* token_response normalising the token type
token_response_lowering(r) ==
    LET params == r.json
    IN  IF "error" \notin DOMAIN params
        THEN Return(OAuth2Token([k \in DOMAIN params |-> IF k = "token_type" THEN Lower(params[k]) ELSE params[k]]))
        ELSE TokenError(params["error"], Get(params, "description"), r.status_code, <<Get(params, "error_uri")>>, Get(params, "state"))

\* fetch_access_token, from resp.json() on
token_response(r) ==
    LET params == r.json
    IN  IF "error" \notin DOMAIN params
        THEN Return(OAuth2Token(params))
        ELSE TokenError(params["error"], Get(params, "description"), r.status_code, <<Get(params, "error_uri")>>, Get(params, "state"))

\* token_result dropping the stored token when the endpoint reports an error
token_result_clearing(self, call, response, order) ==
    LET r == ApplyResponseHooks(order, response)
    IN  [self |-> IF "error" \in DOMAIN r.json THEN [self EXCEPT !.token = NoneDict] ELSE self,
         result |-> token_response(r),
         sent |-> call.sent,
         invoked |-> call.invoked \o Invocations("access_token_response", order),
         raw |-> response, resp |-> r]

\* fetch_access_token, from the response of the transport on
token_result(self, call, response, order) ==
    LET r == ApplyResponseHooks(order, response)
    IN  [self |-> self, result |-> token_response(r),
         sent |-> call.sent,
         invoked |-> call.invoked \o Invocations("access_token_response", order),
         raw |-> response, resp |-> r]

\* fetch_access_token, the choice of the HTTP auth
token_auth(auth, username, password, kwargs) ==
    LET client_id == IF "client_id" \in DOMAIN kwargs THEN kwargs["client_id"] ELSE ""
        secret == IF "client_secret" \in DOMAIN kwargs THEN kwargs["client_secret"] ELSE ""
        client_secret == IF secret = None THEN "" ELSE secret
    IN  IF auth = NoneDict
        THEN IF Truthy(client_id) THEN Return(HTTPBasicAuth(client_id, client_secret))
             ELSE IF Truthy(username)
                  THEN IF password = None THEN Raise("ValueError")
                       ELSE Return(HTTPBasicAuth(username, password))
                  ELSE Return(NoneDict)
        ELSE Return(auth)

\* token_request sending the query parameters with the method it was given
token_request_with_method(self, a, body, auth, order, response) ==
    LET headers == IF a.headers = NoneDict THEN DEFAULT_HEADERS ELSE a.headers
    IN  IF Upper(a.method) = "POST"
        THEN request(self, "POST", a.url, dict(url_decode(body)), headers, FALSE, [params |-> NoneDict, auth |-> auth], order, response)
        ELSE request(self, Upper(a.method), a.url, NoneDict, headers, FALSE, [params |-> dict(url_decode(body)), auth |-> auth], order, response)

\* fetch_access_token, self.post / self.get: requests.Session.post and .get
\* call self.request, which OAuth2Session overrides.
token_request(self, a, body, auth, order, response) ==
    LET headers == IF a.headers = NoneDict THEN DEFAULT_HEADERS ELSE a.headers
    IN  IF Upper(a.method) = "POST"
        THEN request(self, "POST", a.url, dict(url_decode(body)), headers, FALSE, [params |-> NoneDict, auth |-> auth], order, response)
        ELSE request(self, "GET", a.url, NoneDict, headers, FALSE, [params |-> dict(url_decode(body)), auth |-> auth], order, response)

\* redirect_code parsing the redirect response without the session's state
redirect_code_any_state(self, a) ==
    IF ~Truthy(a.code) /\ a.authorization_response # NoneDict
    THEN LET params == parse_authorization_code_response(a.authorization_response, Get(a.authorization_response, "state"))
         IN  IF params.kind = "raise" THEN params ELSE Return([code |-> params.value["code"]])
    ELSE Return([code |-> a.code])

\* redirect_code parsing the redirect response whenever one is given
redirect_code_always_parsing(self, a) ==
    IF a.authorization_response # NoneDict
    THEN LET params == parse_authorization_code_response(a.authorization_response, self.state)
         IN  IF params.kind = "raise" THEN params ELSE Return([code |-> params.value["code"]])
    ELSE Return([code |-> a.code])

\* fetch_access_token, the code of the token request
redirect_code(self, a) ==
    IF ~Truthy(a.code) /\ a.authorization_response # NoneDict
    THEN LET params == parse_authorization_code_response(a.authorization_response, self.state)
         IN  IF params.kind = "raise" THEN params ELSE Return([code |-> params.value["code"]])
    ELSE Return([code |-> a.code])

\* fetch_access_token, from prepare_token_request on
token_exchange(self, a, code, response, order, req_order) ==
    IF {"client_id", "redirect_uri"} \cap DOMAIN a.kwargs # {} THEN Outcome(self, Raise("TypeError"))
    ELSE LET body == prepare_token_request("authorization_code", code, a.body, self.client_id, self.redirect_uri, a.kwargs)
             auth == token_auth(a.auth, a.username, a.password, a.kwargs)
         IN  IF auth.kind = "raise" THEN Outcome(self, auth)
             ELSE LET call == token_request(self, a, body, auth.value, req_order, response)
                  IN  IF call.result.kind = "raise" THEN call
                      ELSE token_result(self, call, response, order)

\* fetch_access_token, after the transport-security check
code_grant(self, a, response, order, req_order) ==
    LET code == redirect_code(self, a)
    IN  IF code.kind = "raise" THEN Outcome(self, code)
        ELSE token_exchange(self, a, code.value.code, response, order, req_order)

\* fetch_access_token without the transport-security check
fetch_without_transport_check(self, a, response, order, req_order) ==
    IF a.url = NoneDict THEN Outcome(self, Return(NoneDict))
    ELSE code_grant(self, a, response, order, req_order)

\* OAuth2Session.fetch_access_token
fetch_access_token(self, a, response, order, req_order) ==
    IF a.url = NoneDict /\ a.authorization_response # NoneDict THEN Outcome(self, Return(NoneDict))
    ELSE IF ~is_secure_transport(a.url) THEN Outcome(self, Raise("InsecureTransportError"))
    ELSE code_grant(self, a, response, order, req_order)

\* authorization_url putting a generated state into the uri whatever the
\* caller passed
authorization_url_fresh_state(self, url, state, token) ==
    LET st == IF state = None THEN token ELSE state
        uri == prepare_grant_uri(url, self.redirect_uri, self.scope, token)
    IN  Outcome(self, Return([uri |-> uri, state |-> st]))

\* authorization_url keeping the state it returns in the session
authorization_url_storing_state(self, url, state, token) ==
    LET st == IF state = None THEN token ELSE state
        uri == prepare_grant_uri(url, self.redirect_uri, self.scope, st)
    IN  Outcome([self EXCEPT !.state = st], Return([uri |-> uri, state |-> st]))

\* OAuth2Session.authorization_url; `token` is what generate_token() returns
authorization_url(self, url, state, token) ==
    LET st == IF state = None THEN token ELSE state
        uri == prepare_grant_uri(url, self.redirect_uri, self.scope, st)
    IN  Outcome(self, Return([uri |-> uri, state |-> st]))

\* register_compliance_hook opening a phase for a hook type it does not know
register_compliance_hook_any_phase(self, hook_type, hook) ==
    LET hooks == IF hook_type \in DOMAIN self.compliance_hook THEN self.compliance_hook[hook_type] ELSE {}
    IN  Outcome([self EXCEPT !.compliance_hook = Put(@, hook_type, hooks \cup {hook})], Return(NoneDict))

\* register_compliance_hook replacing the hooks of the phase
register_compliance_hook_replacing(self, hook_type, hook) ==
    IF hook_type \notin DOMAIN self.compliance_hook
    THEN Outcome(self, Raise("ValueError"))
    ELSE Outcome([self EXCEPT !.compliance_hook[hook_type] = {hook}], Return(NoneDict))

\* OAuth2Session.register_compliance_hook
register_compliance_hook(self, hook_type, hook) ==
    IF hook_type \notin DOMAIN self.compliance_hook
    THEN Outcome(self, Raise("ValueError"))
    ELSE Outcome([self EXCEPT !.compliance_hook[hook_type] = @ \cup {hook}], Return(NoneDict))

----------------------------------------------------------------------------
(* The sessions constructed and the arguments of the calls. *)

\* OAuth2Session.__init__
OAuth2Session(client_id, token, token_placement, state) ==
    [client_id |-> client_id, client_secret |-> "sec", scope |-> "profile",
     redirect_uri |-> "https://app/cb", token |-> token,
     token_placement |-> token_placement, state |-> state,
     compliance_hook |-> [access_token_response |-> {}, refresh_token_response |-> {}, protected_request |-> {}]]

StoredTokens == {EmptyDict, BearerToken, BearerTokenCased, MacToken}
Placements == {"headers", "query", "body"}
Sessions ==
    {OAuth2Session(c, NoneDict, "headers", s) : c \in {None, "cid"}, s \in {None, "s1"}}
    \cup {OAuth2Session("cid", t, p, "s1") : t \in StoredTokens, p \in Placements}
    \cup {OAuth2Session(None, t, "headers", "s1") : t \in {BearerToken, MacToken}}

Redirects == {[code |-> "c2", state |-> "s1"], [code |-> "c2", state |-> "s2"], [state |-> "s1"], [code |-> "c2"]}
FetchDefaults ==
    [url |-> TokenUrl, code |-> "c1", authorization_response |-> NoneDict, body |-> <<>>,
     auth |-> NoneDict, username |-> None, password |-> None, method |-> "POST",
     headers |-> NoneDict, kwargs |-> EmptyDict]
Credentials == {[username |-> None, password |-> None], [username |-> "user", password |-> None], [username |-> "user", password |-> "pw"]}
FetchArgs ==
    {[FetchDefaults EXCEPT !.url = u, !.code = c, !.authorization_response = r] :
        u \in {NoneDict, TokenUrl, InsecureUrl}, c \in {None, "c1"}, r \in {NoneDict} \cup Redirects}
    \cup {[FetchDefaults EXCEPT !.code = "", !.authorization_response = r] : r \in Redirects}
    \cup {[FetchDefaults EXCEPT !.url = u, !.auth = x, !.username = c.username, !.password = c.password, !.kwargs = k] :
        u \in {TokenUrl, InsecureUrl}, x \in {NoneDict, ExplicitAuth}, c \in Credentials,
        k \in {EmptyDict, [client_id |-> "kid"], [client_id |-> "kid", client_secret |-> None]}}
    \cup {[FetchDefaults EXCEPT !.method = m, !.headers = h] : m \in {"POST", "post", "GET", "PUT"}, h \in {NoneDict, CustomHeaders}}
    \cup {[FetchDefaults EXCEPT !.body = <<[k |-> "note", v |-> "a+b"]>>, !.kwargs = [client_secret |-> "ksec"]]}

OkResponse == [status_code |-> 200, json |-> [access_token |-> "tok1", token_type |-> "bearer"]]
TokenResponses ==
    {OkResponse,
     [status_code |-> 200, json |-> [access_token |-> "tok2", token_type |-> "Bearer", state |-> "s1"]],
     [status_code |-> 400, json |-> [error |-> "invalid_grant"]],
     [status_code |-> 401, json |-> [error |-> "invalid_client", description |-> "bad client", error_uri |-> "https://provider/err", state |-> "s1"]],
     [status_code |-> 500, json |-> [access_token |-> "tok3", token_type |-> "mac"]]}
NoResponse == [status_code |-> 0, json |-> EmptyDict]
ApiResponse == [status_code |-> 200, json |-> [login |-> "me"]]

\* The transport answers only the calls that reach it.
Reaches(self, a) == fetch_access_token(self, a, NoResponse, <<>>, <<>>).sent # <<>>
Answers(self, a) == IF Reaches(self, a) THEN TokenResponses ELSE {NoResponse}

----------------------------------------------------------------------------
(* The state machine: one action per operation of the session. *)

Init ==
    /\ session \in Sessions
    /\ issued = None
    /\ registered = [t \in HookTypes |-> <<>>]
    /\ op = "idle" /\ args = NoneDict /\ pre = session
    /\ result = Return(NoneDict) /\ sent = <<>> /\ invoked = <<>>
    /\ raw = NoneDict /\ resp = NoneDict

\* The hooks the caller registered under each phase, in the sequence of
\* their first registration.
Registered(reg, hook_type, hook) ==
    IF hook_type \in DOMAIN reg /\ \A i \in 1..Len(reg[hook_type]) : reg[hook_type][i] # hook
    THEN [reg EXCEPT ![hook_type] = Append(@, hook)]
    ELSE reg

\* The caller is single-threaded and synchronous: it makes a call when it
\* is idle, and holds the outcome of the call until it goes on.
Called(name, a, out) ==
    /\ session' = out.self
    /\ op' = name /\ args' = a /\ pre' = session
    /\ result' = out.result /\ sent' = out.sent /\ invoked' = out.invoked
    /\ raw' = out.raw /\ resp' = out.resp

AuthorizationUrl ==
    /\ op = "idle"
    /\ \E url \in {AuthUrl}, state \in {None} \cup States, token \in GeneratedTokens :
        LET out == authorization_url(session, url, state, token)
        IN  /\ Called("authorization_url", [url |-> url, state |-> state], out)
            /\ issued' = out.result.value.state
            /\ UNCHANGED registered

FetchAccessToken ==
    /\ op = "idle"
    /\ \E a \in FetchArgs :
        \E response \in Answers(session, a),
           order \in Orders(session.compliance_hook["access_token_response"]),
           req_order \in Orders(session.compliance_hook["protected_request"]) :
            /\ Called("fetch_access_token", a, fetch_access_token(session, a, response, order, req_order))
            /\ UNCHANGED <<issued, registered>>

Request ==
    /\ op = "idle"
    /\ \E method \in {"GET", "POST"}, url \in {ApiUrl}, data \in {NoneDict, [q |-> "1"]},
       headers \in {NoneDict, CustomHeaders}, withhold_token \in BOOLEAN,
       order \in Orders(session.compliance_hook["protected_request"]) :
        /\ Called("request",
                  [method |-> method, url |-> url, data |-> data, headers |-> headers, withhold_token |-> withhold_token],
                  request(session, method, url, data, headers, withhold_token, [params |-> NoneDict, auth |-> NoneDict], order, ApiResponse))
        /\ UNCHANGED <<issued, registered>>

RegisterComplianceHook ==
    /\ op = "idle"
    /\ \E hook_type \in HookTypes \cup {"token_response"} :
        \E hook \in IF hook_type = "protected_request" THEN RequestHooks ELSE IF hook_type = "access_token_response" THEN ResponseHooks ELSE {"reset_status"} :
            /\ Called("register_compliance_hook", [hook_type |-> hook_type, hook |-> hook], register_compliance_hook(session, hook_type, hook))
            /\ registered' = Registered(registered, hook_type, hook)
            /\ UNCHANGED issued

\* The caller goes on: it drops the outcome of the call it made.
Continue ==
    /\ op # "idle"
    /\ op' = "idle" /\ args' = NoneDict /\ pre' = session
    /\ result' = Return(NoneDict) /\ sent' = <<>> /\ invoked' = <<>>
    /\ raw' = NoneDict /\ resp' = NoneDict
    /\ UNCHANGED <<session, issued, registered>>

Next == AuthorizationUrl \/ FetchAccessToken \/ Request \/ RegisterComplianceHook \/ Continue

Spec == Init /\ [][Next]_vars

----------------------------------------------------------------------------
(* Properties of fetch_access_token *)

InsecureEndpoint(a) == a.url # NoneDict /\ a.url.scheme # "https"
FromRedirect(a) == is_secure_transport(a.url) /\ ~Truthy(a.code) /\ a.authorization_response # NoneDict
Failed == result.kind = "raise"
StateDiffers == Get(args.authorization_response, "state") # pre.state
CodeMissing == "code" \notin DOMAIN args.authorization_response

\* C1: a fetch_access_token call whose endpoint URL does not use a secure
\* scheme ends with InsecureTransportError, whatever its other arguments,
\* and makes no call to the underlying transport.
C1_InsecureTransportRaises ==
    (op = "fetch_access_token" /\ InsecureEndpoint(args))
        => (Failed /\ result.exc = "InsecureTransportError" /\ sent = <<>>)
C1_Witness ==
    /\ op = "fetch_access_token" /\ InsecureEndpoint(args)
    /\ args.auth # NoneDict /\ args.username # None /\ args.kwargs # EmptyDict
    /\ session.compliance_hook["access_token_response"] # {}
    /\ result.exc = "InsecureTransportError"

\* C2: when authorization_url has returned the state `issued`, a later
\* fetch_access_token with no direct code and a redirect response that
\* carries a code and a state other than `issued` fails with the
\* state-mismatch error and sends no token request.
C2_IssuedStateEnforced ==
    (/\ op = "fetch_access_token" /\ issued # None /\ FromRedirect(args)
     /\ "code" \in DOMAIN args.authorization_response
     /\ Get(args.authorization_response, "state") # issued)
        => (Failed /\ result.exc = "MismatchingStateError" /\ sent = <<>>)

\* C3: with a secure URL, no direct code and a redirect response, a state
\* that differs from the session's stored state gives the state-mismatch
\* error, a matching state without a code gives the missing-code error (a
\* different one), and no failing parse reaches the transport.
C3_MismatchDistinctFromMissingCode ==
    (op = "fetch_access_token" /\ FromRedirect(args))
        => /\ (StateDiffers /\ ~CodeMissing) => (Failed /\ result.exc = "MismatchingStateError")
           /\ (~StateDiffers /\ CodeMissing) => (Failed /\ result.exc = "MissingCodeError")
           /\ (StateDiffers \/ CodeMissing)
                => (Failed /\ result.exc \in {"MismatchingStateError", "MissingCodeError"} /\ sent = <<>>)
C3_Witness ==
    /\ op = "fetch_access_token" /\ FromRedirect(args)
    /\ "code" \in DOMAIN args.authorization_response
    /\ Get(args.authorization_response, "state") = "s2" /\ pre.state = "s1"
    /\ result.exc = "MismatchingStateError"

\* C4: when the response body, after the hooks, has an `error` field,
\* fetch_access_token raises TokenError with the error, description, error
\* URI and state of the body and the status of the response.
C4_ErrorBodyRaisesTokenError ==
    (op = "fetch_access_token" /\ resp # NoneDict /\ "error" \in DOMAIN resp.json)
        => /\ Failed /\ result.exc = "TokenError"
           /\ result.error = resp.json["error"]
           /\ result.description = Get(resp.json, "description")
           /\ result.uri = Get(resp.json, "error_uri")
           /\ result.state = Get(resp.json, "state")
           /\ result.status_code = resp.status_code

\* C5: with no access_token_response hook registered, a response body
\* without an `error` field comes back as a Token whose access_token and
\* token_type are those of the body.
C5_TokenFieldsRoundTrip ==
    (/\ op = "fetch_access_token" /\ raw # NoneDict
     /\ pre.compliance_hook["access_token_response"] = {}
     /\ "error" \notin DOMAIN raw.json)
        => /\ result.kind = "return"
           /\ result.value["access_token"] = raw.json["access_token"]
           /\ result.value["token_type"] = raw.json["token_type"]
C5_Witness ==
    /\ op = "fetch_access_token" /\ raw # NoneDict
    /\ pre.compliance_hook["access_token_response"] = {}
    /\ raw.json["token_type"] = "Bearer"
    /\ result.kind = "return" /\ result.value["token_type"] = "Bearer"

\* C6: a fetch_access_token call that fails leaves the session's stored
\* token as it was before the call.
C6_FailedFetchKeepsToken ==
    (op = "fetch_access_token" /\ Failed) => session.token = pre.token
C6_Witness ==
    /\ op = "fetch_access_token" /\ Failed
    /\ resp # NoneDict /\ "error" \in DOMAIN resp.json
    /\ TruthyDict(pre.token) /\ session.token = pre.token

\* C7: after fetch_access_token returns a Token, the session's stored token
\* is that Token.
C7_FetchedTokenStored ==
    (op = "fetch_access_token" /\ result.kind = "return" /\ result.value # NoneDict)
        => session.token = result.value

----------------------------------------------------------------------------
(* Properties of request *)

HoldsBearer(self) == TruthyDict(self.token) /\ Lower(self.token["token_type"]) = "bearer"
\* The transport call `c` carries the access token of `self` where
\* self.token_placement puts it; with placement `headers`, url and body
\* are the caller's.
Carries(c, self, a) ==
    CASE self.token_placement = "headers" ->
            /\ Get(OrEmpty(c.headers), "Authorization") = BearerHeader(self.token["access_token"])
            /\ c.url = a.url /\ c.data = a.data
      [] self.token_placement = "query" -> Get(c.url.query, "access_token") = self.token["access_token"]
      [] OTHER -> Get(OrEmpty(c.data), "access_token") = self.token["access_token"]

\* C8 as stated: every request() of a session holding a bearer token, with
\* withhold_token false, hands the transport the token embedded according
\* to token_placement and, with placement `headers`, the caller's url and
\* body unmodified.
C8_EveryRequestCarriesToken ==
    (op = "request" /\ HoldsBearer(pre) /\ ~args.withhold_token)
        => (Len(sent) = 1 /\ sent[1].method = args.method /\ Carries(sent[1], pre, args))

\* C8 as amended: the same, for a session with no protected_request hook
\* registered.
C8_RequestCarriesTokenWithoutHooks ==
    (/\ op = "request" /\ HoldsBearer(pre) /\ ~args.withhold_token
     /\ pre.compliance_hook["protected_request"] = {})
        => (Len(sent) = 1 /\ sent[1].method = args.method /\ Carries(sent[1], pre, args))
C8_Witness ==
    /\ op = "request" /\ pre.token = BearerTokenCased /\ ~args.withhold_token
    /\ pre.token_placement = "headers" /\ pre.compliance_hook["protected_request"] = {}
    /\ Len(sent) = 1 /\ sent[1].headers["Authorization"] = "Bearer tok2"

\* C9: request() of a session holding a token of an unrecognized type, with
\* withhold_token false, fails with an explicit usage error (ValueError, as
\* the other usage errors of the session) and never reaches the transport.
C9_UnknownTokenTypeIsUsageError ==
    (op = "request" /\ TruthyDict(pre.token) /\ ~HoldsBearer(pre) /\ ~args.withhold_token)
        => (Failed /\ result.exc = "ValueError" /\ sent = <<>>)

\* C10: request() of a session holding no token, or with withhold_token
\* true, hands the transport exactly the caller's method, url, headers and
\* data and invokes no hook, whatever hooks are registered.
C10_UnprotectedRequestUnchanged ==
    (op = "request" /\ (~TruthyDict(pre.token) \/ args.withhold_token))
        => /\ result.kind = "return"
           /\ sent = <<Transport(args.method, args.url, args.headers, args.data, [params |-> NoneDict, auth |-> NoneDict])>>
           /\ invoked = <<>>
C10_Witness ==
    /\ op = "request" /\ args.withhold_token /\ HoldsBearer(pre)
    /\ pre.compliance_hook["protected_request"] = RequestHooks
    /\ Len(sent) = 1 /\ sent[1].headers = args.headers /\ invoked = <<>>

----------------------------------------------------------------------------
(* Properties of the hook registry. *)

Attached(self, a) == add_token(self.token["access_token"], a.url, a.headers, a.data, self.token_placement)
Delivered(c) == [url |-> c.url, headers |-> c.headers, data |-> c.data]
BothRequestHooks == Len(registered["protected_request"]) = 2

\* C11: with two distinct hooks registered on protected_request, every
\* token-bearing request() applies each hook exactly once, chained, in the
\* order the registration sequence fixes, so that the transport receives
\* the triple transformed by the first registered hook and then by the
\* second, the same for every session built by those registrations.
C11_HooksRunInRegistrationOrder ==
    (op = "request" /\ HoldsBearer(pre) /\ ~args.withhold_token /\ BothRequestHooks)
        => /\ invoked = Invocations("protected_request", registered["protected_request"])
           /\ Len(sent) = 1
           /\ Delivered(sent[1]) = ApplyRequestHooks(registered["protected_request"], Attached(pre, args))

\* The other order a registration sequence could fix: the hook registered
\* last runs first.  Neither order is kept by every request.
Reversed(order) == [i \in 1..Len(order) |-> order[Len(order) + 1 - i]]
C11_HooksRunInReverseRegistrationOrder ==
    (op = "request" /\ HoldsBearer(pre) /\ ~args.withhold_token /\ BothRequestHooks)
        => /\ invoked = Invocations("protected_request", Reversed(registered["protected_request"]))
           /\ Len(sent) = 1
           /\ Delivered(sent[1]) = ApplyRequestHooks(Reversed(registered["protected_request"]), Attached(pre, args))

\* C12: register_compliance_hook with a hook type other than the three
\* phases raises ValueError and leaves the session, its registry included,
\* as it was; after any sequence of registrations the phases of the
\* registry are exactly access_token_response, refresh_token_response and
\* protected_request.
C12_UnknownPhaseRejected ==
    /\ DOMAIN session.compliance_hook = HookTypes
    /\ (op = "register_compliance_hook" /\ args.hook_type \notin HookTypes)
        => (Failed /\ result.exc = "ValueError" /\ session = pre)
C12_Witness ==
    /\ op = "register_compliance_hook" /\ args.hook_type = "token_response"
    /\ Failed /\ result.exc = "ValueError"
    /\ pre.compliance_hook["access_token_response"] = ResponseHooks
    /\ session.compliance_hook = pre.compliance_hook

InvokedTimes(phase, hook) == Cardinality({i \in 1..Len(invoked) : invoked[i] = [phase |-> phase, hook |-> hook]})
OncePerHook(phase) == \A hook \in pre.compliance_hook[phase] : InvokedTimes(phase, hook) = 1

\* C13: registering a hook under a valid phase adds it to the set of that
\* phase and leaves the sets of the other phases unchanged; registering a
\* hook the phase already holds leaves the registry as it was, so that every
\* hook of access_token_response is invoked exactly once per response of a
\* fetch_access_token and every hook of protected_request exactly once per
\* token-bearing request.
C13_RegistrationIsIdempotent ==
    /\ (op = "register_compliance_hook" /\ args.hook_type \in HookTypes)
        => /\ session.compliance_hook[args.hook_type] = pre.compliance_hook[args.hook_type] \cup {args.hook}
           /\ \A t \in HookTypes \ {args.hook_type} : session.compliance_hook[t] = pre.compliance_hook[t]
           /\ args.hook \in pre.compliance_hook[args.hook_type] => session = pre
    /\ (op = "fetch_access_token" /\ raw # NoneDict) => OncePerHook("access_token_response")
    /\ (op = "fetch_access_token" /\ sent # <<>> /\ HoldsBearer(pre)) => OncePerHook("protected_request")
    /\ (op = "request" /\ HoldsBearer(pre) /\ ~args.withhold_token) => OncePerHook("protected_request")
C13_Witness ==
    /\ op = "register_compliance_hook" /\ args.hook_type = "access_token_response"
    /\ args.hook = "reset_status" /\ pre.compliance_hook["access_token_response"] = ResponseHooks
    /\ pre.compliance_hook["protected_request"] = RequestHooks
    /\ result.kind = "return" /\ session = pre

----------------------------------------------------------------------------
(* Properties of the token request. *)

\* C14: the HTTP auth of the token request is the explicit auth if one is
\* given; otherwise, if the session has a client id, HTTP Basic with the
\* session's client id and client secret, an absent secret replaced by the
\* empty string; username and password are used only when neither applies.
C14_AuthPrecedence ==
    (op = "fetch_access_token" /\ Len(sent) = 1)
        => sent[1].auth =
            IF args.auth # NoneDict THEN args.auth
            ELSE IF Truthy(pre.client_id)
                 THEN HTTPBasicAuth(pre.client_id, IF pre.client_secret = None THEN "" ELSE pre.client_secret)
                 ELSE IF Truthy(args.username) THEN HTTPBasicAuth(args.username, args.password) ELSE NoneDict

\* C15: a fetch_access_token to a secure URL with no explicit auth, no
\* client id, a username and no password raises ValueError before the
\* transport is called; with a password it sends the token request with
\* the HTTP Basic auth of that username and password.
C15_UsernameNeedsPassword ==
    (/\ op = "fetch_access_token" /\ is_secure_transport(args.url)
     /\ redirect_code(pre, args).kind = "return"
     /\ args.auth = NoneDict /\ ~Truthy(pre.client_id) /\ args.kwargs = EmptyDict
     /\ Truthy(args.username))
        => IF args.password = None
           THEN Failed /\ result.exc = "ValueError" /\ sent = <<>>
           ELSE Len(sent) = 1 /\ sent[1].auth = HTTPBasicAuth(args.username, args.password)

----------------------------------------------------------------------------
(* Properties of authorization_url. *)

\* C16: authorization_url returns the pair (uri, state): with no state
\* passed the state is a generated token, non-empty and left as it is by
\* percent-encoding; a state the caller passed is returned unchanged; in
\* both cases the returned state is the state parameter of the uri, next
\* to the session's redirect_uri and scope.
C16_AuthorizationUrlCarriesState ==
    op = "authorization_url"
        => /\ result.kind = "return"
           /\ args.state = None
                => (result.value.state \in GeneratedTokens /\ result.value.state \notin {None, ""}
                    /\ Quote(result.value.state) = result.value.state)
           /\ args.state # None => result.value.state = args.state
           /\ Get(result.value.uri.query, "state") = result.value.state
           /\ Get(result.value.uri.query, "redirect_uri") = pre.redirect_uri
           /\ Get(result.value.uri.query, "scope") = pre.scope
           /\ result.value.uri.scheme = args.url.scheme /\ result.value.uri.path = args.url.path
C16_Witness ==
    /\ op = "authorization_url" /\ args.state = "s2" /\ pre.state = "s1"
    /\ result.value.state = "s2" /\ result.value.uri.query["state"] = "s2"
    /\ result.value.uri.query["scope"] = "profile"

----------------------------------------------------------------------------
(* Properties of the response of the token endpoint. *)

ResponseInvocations == SelectSeq(invoked, LAMBDA c : c.phase = "access_token_response")

\* The hooks of access_token_response are applied once each, chained, to
\* the response of the single transport call, and whether the call returns
\* a token or fails is read off the response the last hook returned.
ResponseHooksChained ==
    (op = "fetch_access_token" /\ raw # NoneDict)
        => /\ Len(sent) = 1
           /\ \E order \in Orders(pre.compliance_hook["access_token_response"]) :
                /\ ResponseInvocations = Invocations("access_token_response", order)
                /\ resp = ApplyResponseHooks(order, raw)
           /\ Failed <=> "error" \in DOMAIN resp.json
           /\ ~Failed => result = Return(OAuth2Token(resp.json))

\* C17: every hook registered on access_token_response is applied exactly
\* once, chained, after the single transport call returns and before the
\* body is parsed, and the outcome is decided by the response the last hook
\* returned: a token of its fields, or the protocol error TokenError with
\* the status of that response.
C17_HookedResponseDecidesOutcome ==
    /\ ResponseHooksChained
    /\ (op = "fetch_access_token" /\ raw # NoneDict /\ "error" \in DOMAIN resp.json)
        => (result.exc = "TokenError" /\ result.status_code = resp.status_code)

----------------------------------------------------------------------------
(* Properties of the transport call of fetch_access_token. *)

\* The call was not ended by an exception raised before the transport.
Validated == op = "fetch_access_token" /\ is_secure_transport(args.url) /\ ~(Failed /\ sent = <<>>)
IsPost == Upper(args.method) = "POST"
TokenRequestBody ==
    dict(url_decode(prepare_token_request("authorization_code", redirect_code(pre, args).value.code,
                                          args.body, pre.client_id, pre.redirect_uri, args.kwargs)))

\* C18 as stated: every fetch_access_token call that passes all local
\* validation makes exactly one transport call: with method POST, in any
\* case, the decoded body goes as form data; with any other method it goes
\* as query parameters of a request of that method; the pairs sent equal
\* the decoded token-request body.
C18_TokenRequestUsesMethod ==
    Validated
        => /\ Len(sent) = 1
           /\ sent[1].method = Upper(args.method)
           /\ IF IsPost THEN sent[1].data = TokenRequestBody /\ sent[1].params = NoneDict
                        ELSE sent[1].params = TokenRequestBody /\ sent[1].data = NoneDict

\* C18 as amended: such a call makes exactly one transport call, a POST
\* when the method is POST in any case and a GET for every other method;
\* the query parameters of the GET equal the decoded token-request body,
\* and so does the form data of the POST when the session holds no token.
C18_TokenRequestIsPostOrGet ==
    Validated
        => /\ Len(sent) = 1
           /\ sent[1].method = (IF IsPost THEN "POST" ELSE "GET")
           /\ IF IsPost THEN sent[1].params = NoneDict /\ (~TruthyDict(pre.token) => sent[1].data = TokenRequestBody)
                        ELSE sent[1].params = TokenRequestBody /\ (~TruthyDict(pre.token) => sent[1].data = NoneDict)
C18_Witness ==
    /\ Validated /\ args.method = "PUT" /\ Len(sent) = 1 /\ sent[1].method = "GET"
    /\ sent[1].params = [grant_type |-> "authorization_code", code |-> "c1", redirect_uri |-> "https://app/cb"]
    /\ result.kind = "return"

SentBody == IF sent[1].params # NoneDict THEN sent[1].params ELSE sent[1].data

\* C19: a fetch_access_token given a non-empty code together with a
\* redirect response never parses the redirect response and never compares
\* its state: it does not end with MismatchingStateError or
\* MissingCodeError, and the code of the token request it sends is the
\* code given, also when the redirect response carries another state or
\* another code.
C19_DirectCodeSkipsRedirect ==
    (/\ op = "fetch_access_token" /\ is_secure_transport(args.url)
     /\ Truthy(args.code) /\ args.authorization_response # NoneDict)
        => /\ ~(Failed /\ result.exc \in {"MismatchingStateError", "MissingCodeError"})
           /\ sent # <<>> => Get(SentBody, "code") = args.code
C19_Witness ==
    /\ op = "fetch_access_token" /\ args.code = "c1" /\ pre.state = "s1"
    /\ args.authorization_response = [code |-> "c2", state |-> "s2"]
    /\ Len(sent) = 1 /\ sent[1].data["code"] = "c1" /\ result.kind = "return"

\* C20: authorization_url changes nothing in the session: the stored
\* state, the token, the client configuration and the hook registry are
\* after the call what they were before it, and the state it generated is
\* in the returned pair only.
C20_AuthorizationUrlKeepsSession ==
    op = "authorization_url" => session = pre
C20_Witness ==
    /\ op = "authorization_url" /\ args.state = None /\ result.value.state \in GeneratedTokens
    /\ pre.state = "s1" /\ session.state = "s1" /\ session.token = BearerToken
    /\ session.compliance_hook["protected_request"] = RequestHooks

====
